---- MODULE Spec2Model ----
(***************************************************************************)
(* The contact directory of matys1/remix-tutorial: the route handlers      *)
(* (actions and loaders) of app/root.tsx, app/routes/contacts.$contactId   *)
(* (its text is the second half of root.tsx),                              *)
(* app/routes/contacts.$contactId_.edit.tsx and                            *)
(* app/routes/contacts.$contactId.destroy.tsx, the Favorite component and  *)
(* the search form, run against the contact store of app/data.ts.          *)
(*                                                                         *)
(* Every user-triggered write is a flow of three steps: Submit (the form   *)
(* is dispatched), Settle (the route's action runs against the store) and  *)
(* Revalidate (the loaders run and the components re-render).  A search or *)
(* a back/forward move is a GET navigation: Submit, then Resolve (the      *)
(* loader runs and, unless a later navigation was issued, the page         *)
(* re-renders).  Flows interleave freely between their steps.              *)
(*                                                                         *)
(* Text is a sequence of one-character strings; an optional value is the   *)
(* empty sequence (null / undefined) or a one-element sequence.            *)
(***************************************************************************)
EXTENDS Integers, Sequences, FiniteSets, TLC

\* The number of forms, keystrokes and back/forward moves of one run.
MaxOps == 2

None == <<>>
Some(x) == <<x>>

TextFields == {"first", "last", "twitter", "avatar", "notes"}

\* String.prototype.toLowerCase on the characters the model types.
Lower(c) ==
  CASE c = "A" -> "a"
    [] c = "B" -> "b"
    [] OTHER -> c

\* s occurs in t, letter case ignored.
IsSubstring(s, t) ==
  \E i \in 0..(Len(t) - Len(s)) :
    \A j \in 1..Len(s) : Lower(s[j]) = Lower(t[i + j])

(***************************************************************************)
(* The contact store (app/data.ts).  s is the sequence of the contacts in  *)
(* insertion order, n the next identifier to issue.  A write may fail with *)
(* a StoreError (fail), and then changes nothing.                          *)
(***************************************************************************)
EmptyContact(n) ==
  [id |-> n, createdAt |-> n, favorite |-> FALSE,
   first |-> <<>>, last |-> <<>>, twitter |-> <<>>, avatar |-> <<>>,
   notes |-> <<>>]

Matches(c, text) == IsSubstring(text, c.first) \/ IsSubstring(text, c.last)

getContacts(s, q) ==
  IF q = None THEN s
  ELSE LET Keep(c) == Matches(c, q[1]) IN SelectSeq(s, Keep)

Ids(s) == {s[i].id : i \in 1..Len(s)}

getContact(s, id) ==
  LET Is(c) == c.id = id
      found == SelectSeq(s, Is)
  IN IF found = <<>> THEN None ELSE Some(found[1])

createEmptyContact(s, n, fail) ==
  IF fail THEN [error |-> "StoreError", contacts |-> s, nextId |-> n,
                contact |-> None]
  ELSE [error |-> "", contacts |-> Append(s, EmptyContact(n)),
        nextId |-> n + 1, contact |-> Some(EmptyContact(n))]

\* The merge of the supplied fields into contact c; id and createdAt stay.
Merge(c, updates) ==
  [f \in DOMAIN c |->
     IF f \in DOMAIN updates /\ f \notin {"id", "createdAt"}
     THEN updates[f] ELSE c[f]]

updateContact(s, id, updates, fail) ==
  IF id \notin Ids(s) THEN [error |-> "NotFoundError", contacts |-> s]
  ELSE IF fail THEN [error |-> "StoreError", contacts |-> s]
  ELSE [error |-> "",
        contacts |-> [i \in 1..Len(s) |->
                        IF s[i].id = id THEN Merge(s[i], updates) ELSE s[i]]]

deleteContact(s, id, fail) ==
  IF id \notin Ids(s) THEN [error |-> "NotFoundError", contacts |-> s]
  ELSE IF fail THEN [error |-> "StoreError", contacts |-> s]
  ELSE LET Other(c) == c.id # id
       IN [error |-> "", contacts |-> SelectSeq(s, Other)]

(***************************************************************************)
(* Locations.  A URL is a route, the contact identifier of its path (0 on  *)
(* the index route) and the q search parameter.                            *)
(***************************************************************************)
IndexUrl(q) == [route |-> "index", id |-> 0, q |-> q]
ContactUrl(id) == [route |-> "contact", id |-> id, q |-> None]
EditUrl(id) == [route |-> "edit", id |-> id, q |-> None]

\* The params the route match hands to a handler.
Params(loc) == [contactId |-> IF loc.id = 0 THEN None ELSE Some(loc.id)]

\* FormData.get
Get(formData, k) ==
  IF k \in DOMAIN formData THEN Some(formData[k]) ELSE None

(***************************************************************************)
(* The route actions.  Each returns the error it threw ("" when none), the *)
(* store it leaves and the redirect it answered with.                      *)
(***************************************************************************)
\* Mutant of rootAction: the redirect names the identifier the store issues
\* next, not the one of the contact createEmptyContact returned.
rootActionNextId(s, n, fail) ==
  LET r == createEmptyContact(s, n, fail)
  IN IF r.error # ""
     THEN [error |-> r.error, contacts |-> s, nextId |-> n, redirect |-> None]
     ELSE [error |-> "", contacts |-> r.contacts, nextId |-> r.nextId,
           redirect |-> Some(EditUrl(r.nextId))]

\* root.tsx: the "New" button.
rootAction(s, n, fail) ==
  LET r == createEmptyContact(s, n, fail)
  IN IF r.error # ""
     THEN [error |-> r.error, contacts |-> s, nextId |-> n, redirect |-> None]
     ELSE [error |-> "", contacts |-> r.contacts, nextId |-> r.nextId,
           redirect |-> Some(EditUrl(r.contact[1].id))]

\* Mutant of contactAction: the submitted string taken for its truthiness
\* (Boolean("false") is true).
contactActionTruthy(params, formData, s, n, fail) ==
  IF params.contactId = None
  THEN [error |-> "ValidationError", contacts |-> s, nextId |-> n,
        redirect |-> None]
  ELSE LET r == updateContact(s, params.contactId[1],
                  [favorite |-> (Get(formData, "favorite") # None)], fail)
       IN [error |-> r.error, contacts |-> r.contacts, nextId |-> n,
           redirect |-> None]

\* contacts.$contactId: the star button of Favorite.
contactAction(params, formData, s, n, fail) ==
  IF params.contactId = None
  THEN [error |-> "ValidationError", contacts |-> s, nextId |-> n,
        redirect |-> None]
  ELSE LET r == updateContact(s, params.contactId[1],
                  [favorite |-> (Get(formData, "favorite") = Some("true"))],
                  fail)
       IN [error |-> r.error, contacts |-> r.contacts, nextId |-> n,
           redirect |-> None]

\* Mutant of editAction: favorite is parsed from the form as the contact
\* route's action does; the edit form has no such field.
editActionWithFavorite(params, formData, s, n, fail) ==
  IF params.contactId = None
  THEN [error |-> "ValidationError", contacts |-> s, nextId |-> n,
        redirect |-> None]
  ELSE LET updates ==
             [favorite |-> (Get(formData, "favorite") = Some("true"))]
               @@ formData
           r == updateContact(s, params.contactId[1], updates, fail)
       IN IF r.error # ""
          THEN [error |-> r.error, contacts |-> s, nextId |-> n,
                redirect |-> None]
          ELSE [error |-> "", contacts |-> r.contacts, nextId |-> n,
                redirect |-> Some(ContactUrl(params.contactId[1]))]

\* Mutant of editAction: the failure of updateContact is caught and the
\* redirect is answered all the same.
editActionSwallows(params, formData, s, n, fail) ==
  IF params.contactId = None
  THEN [error |-> "ValidationError", contacts |-> s, nextId |-> n,
        redirect |-> None]
  ELSE LET updates == formData
           r == updateContact(s, params.contactId[1], updates, fail)
       IN [error |-> r.error, contacts |-> r.contacts, nextId |-> n,
           redirect |-> Some(ContactUrl(params.contactId[1]))]

\* contacts.$contactId_.edit: the "Save" button.
editAction(params, formData, s, n, fail) ==
  IF params.contactId = None
  THEN [error |-> "ValidationError", contacts |-> s, nextId |-> n,
        redirect |-> None]
  ELSE LET updates == formData
           r == updateContact(s, params.contactId[1], updates, fail)
       IN IF r.error # ""
          THEN [error |-> r.error, contacts |-> s, nextId |-> n,
                redirect |-> None]
          ELSE [error |-> "", contacts |-> r.contacts, nextId |-> n,
                redirect |-> Some(ContactUrl(params.contactId[1]))]

\* Mutant of destroyAction: no invariant() on params.contactId; the store is
\* asked to delete whatever the params hold.
destroyActionUnchecked(params, s, n, fail) ==
  LET id == IF params.contactId = None THEN 0 ELSE params.contactId[1]
      r == deleteContact(s, id, fail)
  IN IF r.error # ""
     THEN [error |-> r.error, contacts |-> s, nextId |-> n, redirect |-> None]
     ELSE [error |-> "", contacts |-> r.contacts, nextId |-> n,
           redirect |-> Some(IndexUrl(None))]

\* Mutant of destroyAction: the redirect is answered without deleteContact
\* having been called.
destroyActionSkips(params, s, n, fail) ==
  IF params.contactId = None
  THEN [error |-> "ValidationError", contacts |-> s, nextId |-> n,
        redirect |-> None]
  ELSE [error |-> "", contacts |-> s, nextId |-> n,
        redirect |-> Some(IndexUrl(None))]

\* contacts.$contactId.destroy: the "Delete" button.
destroyAction(params, s, n, fail) ==
  IF params.contactId = None
  THEN [error |-> "ValidationError", contacts |-> s, nextId |-> n,
        redirect |-> None]
  ELSE LET r == deleteContact(s, params.contactId[1], fail)
       IN IF r.error # ""
          THEN [error |-> r.error, contacts |-> s, nextId |-> n,
                redirect |-> None]
          ELSE [error |-> "", contacts |-> r.contacts, nextId |-> n,
                redirect |-> Some(IndexUrl(None))]

(***************************************************************************)
(* The route loaders.                                                      *)
(***************************************************************************)
\* Mutant of rootLoader: q is returned but not handed to getContacts.
rootLoaderUnfiltered(url, s) == [contacts |-> getContacts(s, None), q |-> url.q]

\* Mutant of rootLoader: the list is returned newest first.
rootLoaderNewestFirst(url, s) ==
  LET found == getContacts(s, url.q)
  IN [contacts |-> [i \in 1..Len(found) |-> found[Len(found) + 1 - i]],
      q |-> url.q]

rootLoader(url, s) == [contacts |-> getContacts(s, url.q), q |-> url.q]

contactLoader(params, s) ==
  IF params.contactId = None
  THEN [error |-> "ValidationError", contact |-> None]
  ELSE LET contact == getContact(s, params.contactId[1])
       IN IF contact = None THEN [error |-> "404", contact |-> None]
          ELSE [error |-> "", contact |-> contact]

editLoader(params, s) ==
  IF params.contactId = None
  THEN [error |-> "ValidationError", contact |-> None]
  ELSE LET contact == getContact(s, params.contactId[1])
       IN IF contact = None THEN [error |-> "404", contact |-> None]
          ELSE [error |-> "", contact |-> contact]

\* The loader of the child route that matches loc (the index route has none).
RouteLoader(loc, s) ==
  CASE loc.route = "contact" -> contactLoader(Params(loc), s)
    [] loc.route = "edit" -> editLoader(Params(loc), s)
    [] OTHER -> [error |-> "", contact |-> None]

(***************************************************************************)
(* The Favorite component: the star it shows and the value its button      *)
(* submits.                                                                *)
(***************************************************************************)
\* Mutants of Favorite: one that shows the loader's value whatever is in
\* flight, and one that shows the payload only while submitting.
FavoriteOfLoader(fetcher_, contact) == contact.favorite
FavoriteWhileSubmitting(fetcher_, contact) ==
  IF fetcher_.state = "submitting"
  THEN Get(fetcher_.formData[1], "favorite") = Some("true")
  ELSE contact.favorite

Favorite(fetcher_, contact) ==
  IF fetcher_.formData # None
  THEN Get(fetcher_.formData[1], "favorite") = Some("true")
  ELSE contact.favorite

ButtonValue(favorite) == IF favorite THEN "false" ELSE "true"

\* Mutant of SearchReplace: replace: isFirstSearch, the negation forgotten.
SearchReplaceInverted(q) ==
  LET isFirstSearch == (q = None)
  IN isFirstSearch

\* The search form's onChange: replace the history entry unless q is null.
SearchReplace(q) ==
  LET isFirstSearch == (q = None)
  IN ~isFirstSearch

\* The effect keyed on q: the text it writes into the search field.
ResyncText(q) == IF q = None THEN <<>> ELSE q[1]

(***************************************************************************)
(* The state.                                                              *)
(***************************************************************************)
VARIABLES
  contacts,    \* the store: the contacts, in insertion order
  nextId,      \* the store: the next identifier createEmptyContact issues
  reqs,        \* the requests in flight, by request number
  nextReq,     \* the number the next request gets
  location,    \* the URL the page shows
  history,     \* the session history: a sequence of URLs
  hidx,        \* the position of the current entry in history
  rootData,    \* useLoaderData of the root route: contacts and q
  routeData,   \* useLoaderData of the child route: contact, or the error
  fetcher,     \* useFetcher of Favorite: state, formData, its last request
  navigation,  \* useNavigation: state and the navigation issued last
  inputText,   \* the text in the search field (the DOM's, uncontrolled)
  settles,     \* how many actions have settled so far
  obs          \* per request ever issued: what an observer noted of it

vars == <<contacts, nextId, reqs, nextReq, location, history, hidx, rootData,
          routeData, fetcher, navigation, inputText, settles, obs>>

\* What the forms can carry.
EditForms ==
  { [first |-> <<"a", "B">>, last |-> <<"b">>, twitter |-> <<"t">>,
     avatar |-> <<>>, notes |-> <<"n">>] }
Queries == { <<"a">>, <<"a", "b">> }
SeedContact(fav) ==
  [id |-> 1, createdAt |-> 1, favorite |-> fav,
   first |-> <<"A">>, last |-> <<>>, twitter |-> <<>>, avatar |-> <<>>,
   notes |-> <<"x">>]

IdleFetcher == [state |-> "idle", formData |-> None, req |-> 0]
IdleNavigation == [state |-> "idle", req |-> 0]

Mutations == {"new", "favorite", "edit", "destroy"}
InFlight == DOMAIN reqs

\* Favorite is on the page: the contact route rendered with its contact.
FavoriteMounted(loc, data) == loc.route = "contact" /\ data.contact # None
\* The star the page shows.
Displayed == Favorite(fetcher, routeData.contact[1])

Init ==
  \E fav \in BOOLEAN, loc \in {ContactUrl(1), EditUrl(1)} :
    /\ contacts = <<SeedContact(fav)>>
    /\ nextId = 2
    /\ reqs = <<>>
    /\ nextReq = 1
    /\ location = loc
    /\ history = <<loc>>
    /\ hidx = 1
    /\ rootData = rootLoader(loc, contacts)
    /\ routeData = RouteLoader(loc, contacts)
    /\ fetcher = IdleFetcher
    /\ navigation = IdleNavigation
    /\ inputText = ResyncText(loc.q)
    /\ settles = 0
    /\ obs = <<>>

(***************************************************************************)
(* Submit: a form is dispatched.                                           *)
(***************************************************************************)
Request(kind, phase, params, formData, url, mode, delta) ==
  [kind |-> kind, phase |-> phase, params |-> params, formData |-> formData,
   url |-> url, mode |-> mode, delta |-> delta, error |-> "",
   redirect |-> None]

\* The observer's note of a request at its Submit: the request, the q and the
\* store of that moment (pre), the number of actions settled until then (ver);
\* later the number its own Settle got (setAt), the error its action threw and
\* the steps it has taken (trace).
Note(req) ==
  [kind |-> req.kind, params |-> req.params, formData |-> req.formData,
   url |-> req.url, mode |-> req.mode, q0 |-> rootData.q, pre |-> contacts,
   ver |-> settles, setAt |-> 0, error |-> "", trace |-> <<"submit">>]

Dispatch(req) ==
  /\ nextReq <= MaxOps
  /\ reqs' = (nextReq :> req) @@ reqs
  /\ nextReq' = nextReq + 1
  /\ obs' = Append(obs, Note(req))
  /\ UNCHANGED <<contacts, nextId, location, history, hidx, rootData,
                 routeData, settles>>

\* A click on the star: fetcher.Form method="post" to the contact route.
SubmitFavorite ==
  /\ FavoriteMounted(location, routeData)
  /\ LET formData == [favorite |-> ButtonValue(Displayed)]
     IN /\ Dispatch(Request("favorite", "submitted", Params(location),
                            formData, None, "", 0))
        /\ fetcher' = [state |-> "submitting", formData |-> Some(formData),
                       req |-> nextReq]
  /\ UNCHANGED <<navigation, inputText>>

\* A click on "New": Form method="post" to the root route.
SubmitNew ==
  /\ Dispatch(Request("new", "submitted", Params(IndexUrl(None)), <<>>, None,
                      "", 0))
  /\ navigation' = [state |-> "submitting", req |-> nextReq]
  /\ UNCHANGED <<fetcher, inputText>>

\* A click on "Save": Form method="post" to the edit route.
SubmitEdit ==
  /\ location.route = "edit" /\ routeData.contact # None
  /\ \E form \in EditForms :
       Dispatch(Request("edit", "submitted", Params(location), form, None,
                        "", 0))
  /\ navigation' = [state |-> "submitting", req |-> nextReq]
  /\ UNCHANGED <<fetcher, inputText>>

\* A confirmed click on "Delete": Form action="destroy" method="post".
SubmitDestroy ==
  /\ location.route = "contact" /\ routeData.contact # None
  /\ Dispatch(Request("destroy", "submitted", Params(location), <<>>, None,
                      "", 0))
  /\ navigation' = [state |-> "submitting", req |-> nextReq]
  /\ UNCHANGED <<fetcher, inputText>>

\* A keystroke in the search field: the form's onChange submits it (GET).
SearchChange ==
  \E text \in Queries :
    /\ text # inputText
    /\ inputText' = text
    /\ Dispatch(Request("search", "loading", Params(IndexUrl(None)), <<>>,
                        Some(IndexUrl(Some(text))),
                        IF SearchReplace(rootData.q) THEN "replace"
                        ELSE "push", 0))
    /\ navigation' = [state |-> "loading", req |-> nextReq]
    /\ UNCHANGED fetcher

\* The browser's back and forward buttons.
PopState ==
  \E delta \in {-1, 1} :
    /\ hidx + delta \in 1..Len(history)
    /\ Dispatch(Request("pop", "loading", Params(IndexUrl(None)), <<>>, None,
                        "pop", delta))
    /\ navigation' = [state |-> "loading", req |-> nextReq]
    /\ UNCHANGED <<fetcher, inputText>>

(***************************************************************************)
(* Settle: the route's action runs against the store.                      *)
(***************************************************************************)
RunAction(req, s, n, fail) ==
  CASE req.kind = "new" -> rootAction(s, n, fail)
    [] req.kind = "favorite" ->
         contactAction(req.params, req.formData, s, n, fail)
    [] req.kind = "edit" -> editAction(req.params, req.formData, s, n, fail)
    [] OTHER -> destroyAction(req.params, s, n, fail)

Without(f, r) == [x \in (DOMAIN f) \ {r} |-> f[x]]

Settle(r) ==
  /\ r \in InFlight
  /\ reqs[r].kind \in Mutations
  /\ reqs[r].phase = "submitted"
  /\ \E fail \in BOOLEAN :
       LET res == RunAction(reqs[r], contacts, nextId, fail)
       IN /\ contacts' = res.contacts
          /\ nextId' = res.nextId
          /\ reqs' = [reqs EXCEPT ![r].phase = "settled",
                                  ![r].error = res.error,
                                  ![r].redirect = res.redirect]
          /\ obs' = [obs EXCEPT ![r].trace = Append(@, "settle"),
                                ![r].setAt = settles + 1,
                                ![r].error = res.error]
  /\ settles' = settles + 1
  /\ fetcher' = IF fetcher.req = r THEN [fetcher EXCEPT !.state = "loading"]
                ELSE fetcher
  /\ navigation' = IF navigation.req = r
                   THEN [navigation EXCEPT !.state = "loading"]
                   ELSE navigation
  /\ UNCHANGED <<nextReq, location, history, hidx, rootData, routeData,
                 inputText>>

(***************************************************************************)
(* Rendering a location: the loaders run against the store, the components *)
(* re-render with what they return, and the effect keyed on q runs when q  *)
(* has changed.  A Favorite that leaves the page takes its fetcher along.  *)
(***************************************************************************)
Push(h, i, loc) == Append(SubSeq(h, 1, i), loc)

\* Mutants of CanRevalidate: loaders that do not wait for the action, and
\* loaders that run only after a fulfilled action.
CanRevalidateEarly(req) == req.kind \in Mutations
CanRevalidateFulfilled(req) ==
  req.kind \in Mutations /\ req.phase = "settled" /\ req.error = ""

\* The loaders run whether the action fulfilled or rejected.
CanRevalidate(req) == req.kind \in Mutations /\ req.phase = "settled"

\* Only the navigation issued last is shown.
Superseded(r) == navigation.req # r

\* Mutant of EffectRuns: an empty dependency list, the effect runs on mount
\* only.
EffectOnMountOnly(old, new) == FALSE

\* The dependency list [q] of the effect: it runs when q has changed.
EffectRuns(old, new) == old # new

Render(loc, r) ==
  LET root == rootLoader(loc, contacts)
      data == RouteLoader(loc, contacts)
      kept == IF fetcher.req = r THEN IdleFetcher ELSE fetcher
  IN /\ location' = loc
     /\ rootData' = root
     /\ routeData' = data
     /\ inputText' = IF EffectRuns(rootData.q, root.q) THEN ResyncText(root.q)
                     ELSE inputText
     /\ fetcher' = IF FavoriteMounted(location, routeData)
                      /\ FavoriteMounted(loc, data)
                   THEN kept ELSE IdleFetcher
     /\ navigation' = IF navigation.req = r THEN IdleNavigation
                      ELSE navigation

(***************************************************************************)
(* Revalidate: after an action has settled, its redirect (if any) is       *)
(* followed and the page is rendered anew.                                 *)
(***************************************************************************)
Revalidate(r) ==
  /\ r \in InFlight
  /\ CanRevalidate(reqs[r])
  /\ IF reqs[r].redirect # None
     THEN /\ Render(reqs[r].redirect[1], r)
          /\ history' = Push(history, hidx, reqs[r].redirect[1])
          /\ hidx' = hidx + 1
     ELSE /\ Render(location, r)
          /\ UNCHANGED <<history, hidx>>
  /\ reqs' = Without(reqs, r)
  /\ obs' = [obs EXCEPT ![r].trace = Append(@, "revalidate")]
  /\ UNCHANGED <<contacts, nextId, nextReq, settles>>

(***************************************************************************)
(* Resolve: the loaders of a GET navigation have run.  Its result is shown *)
(* unless a later navigation has been issued in the meantime.              *)
(***************************************************************************)
Discard(r) ==
  /\ reqs' = Without(reqs, r)
  /\ obs' = [obs EXCEPT ![r].trace = Append(@, "discard")]
  /\ UNCHANGED <<contacts, nextId, nextReq, location, history, hidx,
                 rootData, routeData, fetcher, navigation, inputText,
                 settles>>

Commit(r, loc, h, i) ==
  /\ Render(loc, r)
  /\ history' = h
  /\ hidx' = i
  /\ reqs' = Without(reqs, r)
  /\ obs' = [obs EXCEPT ![r].trace = Append(@, "resolve")]
  /\ UNCHANGED <<contacts, nextId, nextReq, settles>>

ResolveSearch(r) ==
  /\ r \in InFlight
  /\ reqs[r].kind = "search"
  /\ IF Superseded(r) THEN Discard(r)
     ELSE IF reqs[r].mode = "replace"
     THEN Commit(r, reqs[r].url[1],
                 [history EXCEPT ![hidx] = reqs[r].url[1]], hidx)
     ELSE Commit(r, reqs[r].url[1], Push(history, hidx, reqs[r].url[1]),
                 hidx + 1)

ResolvePop(r) ==
  /\ r \in InFlight
  /\ reqs[r].kind = "pop"
  /\ IF Superseded(r) \/ (hidx + reqs[r].delta) \notin 1..Len(history)
     THEN Discard(r)
     ELSE Commit(r, history[hidx + reqs[r].delta], history,
                 hidx + reqs[r].delta)

ReqIds == 1..MaxOps

Next ==
  \/ SubmitFavorite
  \/ SubmitNew
  \/ SubmitEdit
  \/ SubmitDestroy
  \/ SearchChange
  \/ PopState
  \/ \E r \in ReqIds : Settle(r)
  \/ \E r \in ReqIds : Revalidate(r)
  \/ \E r \in ReqIds : ResolveSearch(r)
  \/ \E r \in ReqIds : ResolvePop(r)

Spec == Init /\ [][Next]_vars

\* Every request in flight is answered: no handler blocks for ever.
Fairness ==
  \A r \in ReqIds :
    /\ WF_vars(Settle(r))
    /\ WF_vars(Revalidate(r))
    /\ WF_vars(ResolveSearch(r))
    /\ WF_vars(ResolvePop(r))

FairSpec == Spec /\ Fairness

(***************************************************************************)
(* The routes as requests reach them.  The handlers are exported           *)
(* functions: whoever calls them hands them the params, so a path may name *)
(* a contact of the store, a contact that is not (or no longer) in it, or, *)
(* on a route matched without the parameter, no contact at all.  The steps *)
(* after the Submit are the ones above; the client awaits the answer to    *)
(* one request before it sends the next.                                   *)
(***************************************************************************)
\* The contact identifiers a request can carry: 0 stands for none.
PathIds == 0..2

\* The form a request of each kind carries.
FormsOf(kind) ==
  CASE kind = "favorite" -> { [favorite |-> "true"], [favorite |-> "false"] }
    [] kind = "edit" -> EditForms
    [] OTHER -> { <<>> }

\* A form posted to a route.
PostRoute ==
  /\ InFlight = {}
  /\ \E kind \in Mutations, id \in PathIds :
       /\ (kind = "new") => (id = 0)
       /\ \E formData \in FormsOf(kind) :
            Dispatch(Request(kind, "submitted", Params(ContactUrl(id)),
                             formData, None, "", 0))
  /\ navigation' = [state |-> "submitting", req |-> nextReq]
  /\ UNCHANGED <<fetcher, inputText>>

\* A link followed to a contact page (NavLink) or to its edit page (the
\* "Edit" form, a GET).
GetRoute ==
  /\ InFlight = {}
  /\ \E id \in PathIds :
       \E url \in {ContactUrl(id), EditUrl(id)} :
         Dispatch(Request("get", "loading", Params(url), <<>>, Some(url),
                          "push", 0))
  /\ navigation' = [state |-> "loading", req |-> nextReq]
  /\ UNCHANGED <<fetcher, inputText>>

\* The loaders of a followed link have run.
ResolveGet(r) ==
  /\ r \in InFlight
  /\ reqs[r].kind = "get"
  /\ IF Superseded(r) THEN Discard(r)
     ELSE Commit(r, reqs[r].url[1], Push(history, hidx, reqs[r].url[1]),
                 hidx + 1)

RouteNext ==
  \/ PostRoute
  \/ GetRoute
  \/ \E r \in ReqIds : Settle(r)
  \/ \E r \in ReqIds : Revalidate(r)
  \/ \E r \in ReqIds : ResolveGet(r)

RouteSpec == Init /\ [][RouteNext]_vars

\* Every request to a route is answered: no handler blocks for ever.
RouteFairness ==
  \A r \in ReqIds :
    /\ WF_vars(Settle(r))
    /\ WF_vars(Revalidate(r))
    /\ WF_vars(ResolveGet(r))

RouteFairSpec == RouteSpec /\ RouteFairness

(***************************************************************************)
(* The properties.                                                         *)
(***************************************************************************)
IsPrefix(a, b) == Len(a) <= Len(b) /\ a = SubSeq(b, 1, Len(a))
Issued == 1..Len(obs)
IsMutation(r) == obs[r].kind \in Mutations
Phases == <<"submit", "settle", "revalidate">>
Settled(r) == r \in Issued /\ IsMutation(r) /\ Len(obs[r].trace) >= 2
Revalidated(r) == r \in Issued /\ obs[r].trace = Phases

\* C1: the steps of every mutation (new, favorite, edit, destroy) are taken in
\* the order Submit, Settle, Revalidate, whatever other mutations and searches
\* do in between: its action runs once, after its Submit and while the request
\* waits as submitted, and its loaders run once, after its action has settled.
C1_PhasesOrdered ==
  \A r \in Issued :
    IsMutation(r) =>
      /\ IsPrefix(obs[r].trace, Phases)
      /\ (Len(obs[r].trace) = 1 <=>
            (r \in InFlight /\ reqs[r].phase = "submitted"))
      /\ (Len(obs[r].trace) = 2 <=>
            (r \in InFlight /\ reqs[r].phase = "settled"))
      /\ (Len(obs[r].trace) = 3 <=> r \notin InFlight)
      /\ (Settled(r) => obs[r].setAt > obs[r].ver)

\* Two mutations have run to their end, the later submitted one settling
\* first.
C1_Witness ==
  /\ Len(obs) >= 2
  /\ IsMutation(1) /\ IsMutation(2)
  /\ Revalidated(1) /\ Revalidated(2)
  /\ obs[2].setAt < obs[1].setAt

\* C2: under fair scheduling of the handlers, every mutation whose action has
\* settled, fulfilled or rejected, is followed by its Revalidate, and neither
\* the fetcher nor the navigation stays submitting or loading for ever.  (A
\* settled request stays settled, so "settled leads to revalidated" is "again
\* and again: revalidated unless not settled".)
C2_RevalidationUnconditional ==
  /\ \A r \in ReqIds : []<>(Settled(r) => Revalidated(r))
  /\ []<>(fetcher.state = "idle")
  /\ []<>(navigation.state = "idle")

\* A favorite toggle whose action was rejected with a StoreError has been
\* revalidated and the fetcher is idle again.
C2_Witness ==
  \E r \in Issued :
    /\ obs[r].kind = "favorite"
    /\ obs[r].error = "StoreError"
    /\ Revalidated(r)
    /\ fetcher.state = "idle"
    /\ InFlight = {}

\* The favorite value of the payload a request carries.
Payload(r) == obs[r].formData.favorite = "true"
\* The favorite value the child route's loader returned last.
Authoritative == routeData.contact[1].favorite

\* C3: wherever Favorite is on the page, the star it shows is the value of the
\* payload in flight while the fetcher is submitting or loading, and the value
\* the loader returned last while the fetcher is idle.
C3_DisplayedValue ==
  FavoriteMounted(location, routeData) =>
    IF fetcher.state \in {"submitting", "loading"}
    THEN /\ fetcher.req \in InFlight
         /\ reqs[fetcher.req].kind = "favorite"
         /\ Displayed = (reqs[fetcher.req].formData.favorite = "true")
    ELSE /\ fetcher.state = "idle"
         /\ Displayed = Authoritative

\* The fetcher is loading and the star shown differs from the loader's value.
C3_Witness ==
  /\ FavoriteMounted(location, routeData)
  /\ fetcher.state = "loading"
  /\ Displayed # Authoritative

Mounted == FavoriteMounted(location, routeData)
\* The favorite value the store held for the request's contact at its Submit.
PreFavorite(r) ==
  getContact(obs[r].pre, obs[r].params.contactId[1])[1].favorite
\* No action but the request's own has settled since its Submit.
OnlyOwnSettle(r) == settles = obs[r].ver + 1

C4_Optimistic ==
  (Mounted /\ fetcher.state \in {"submitting", "loading"}
     /\ Payload(fetcher.req)) => Displayed

C4_Step ==
  \* no action that settles, fulfilled or rejected, changes the star
  /\ (Mounted /\ settles' # settles) => (Mounted' /\ Displayed' = Displayed)
  \* the star changes only with a new Submit or with a Revalidate
  /\ (Mounted /\ Mounted' /\ Displayed' # Displayed) =>
       \/ nextReq' # nextReq
       \/ \E r \in InFlight : ~Revalidated(r) /\ Revalidated(r)'
  \* the fetcher falls idle with the Revalidate of its request, and the star is
  \* then the loader's value: for a payload of true over a stored false, true
  \* when the action fulfilled and false when it was rejected
  /\ \A r \in ReqIds :
       (Mounted /\ Mounted' /\ fetcher.req = r /\ fetcher.state # "idle"
          /\ fetcher'.state = "idle")
         => /\ ~Revalidated(r) /\ Revalidated(r)'
            /\ Displayed' = Authoritative'
            /\ (OnlyOwnSettle(r) /\ Payload(r) /\ ~PreFavorite(r))
                 => (Displayed' = (obs[r].error = ""))

\* C4: over an authoritative favorite=false, a submitted favorite=true is the
\* star shown all through submitting and loading, also after the action was
\* rejected; the star becomes the new authoritative value (true after success,
\* false after rejection) with the Revalidate and not before.
C4_OptimisticUntilRevalidated == []C4_Optimistic /\ [][C4_Step]_vars

\* The action of a favorite=true toggle was rejected, the loaders have not run
\* yet, and the star still shows true over an authoritative false.
C4_Witness ==
  /\ Mounted
  /\ fetcher.state = "loading"
  /\ obs[fetcher.req].error = "StoreError"
  /\ Payload(fetcher.req)
  /\ ~Authoritative
  /\ Displayed

\* No mutation is in flight.
Quiet == \A r \in InFlight : reqs[r].kind \notin Mutations
\* The fulfilled favorite toggles of the contact on the page.
Toggles ==
  {r \in Issued : /\ obs[r].kind = "favorite"
                  /\ obs[r].params.contactId = Some(location.id)
                  /\ Settled(r) /\ obs[r].error = ""}
\* Of a set of settled requests, the one whose action settled last.
LastSettled(S) == CHOOSE r \in S : \A x \in S : obs[x].setAt <= obs[r].setAt

\* C5: toggles of one contact are not serialized in the order of their
\* Submit.  Once no mutation is in flight the fetcher is idle and the star is
\* the value the last Revalidate read from the store, which is the payload of
\* the toggle whose action settled last (not of the one submitted last).
C5_LastCompletedWins ==
  (Mounted /\ Quiet) =>
    /\ fetcher.state = "idle"
    /\ Displayed = Authoritative
    /\ Authoritative = getContact(contacts, location.id)[1].favorite
    /\ (Toggles # {} => Displayed = Payload(LastSettled(Toggles)))

\* Two toggles of contact 1, the second submitted before the first settled,
\* both fulfilled and revalidated: the star is not what was submitted last.
C5_Witness ==
  /\ Mounted /\ InFlight = {} /\ Len(obs) = 2
  /\ obs[1].kind = "favorite" /\ obs[2].kind = "favorite"
  /\ obs[2].ver = 0
  /\ obs[1].error = "" /\ obs[2].error = ""
  /\ obs[2].setAt < obs[1].setAt
  /\ Displayed # Payload(2)

IsSearch(r) == obs[r].kind = "search"
\* A search was issued after request r.
LaterSearch(r) == \E y \in Issued : y > r /\ IsSearch(y)

\* Once every request has been answered, and the last one issued was a search
\* behind which only searches and favorite toggles were issued, the page is at
\* that search's URL and lists what the store holds for its query.
C6_Final ==
  (/\ Len(obs) >= 1 /\ InFlight = {}
   /\ IsSearch(Len(obs))
   /\ \A r \in Issued : obs[r].kind \in {"search", "favorite"})
  => /\ location = obs[Len(obs)].url[1]
     /\ rootData.q = location.q
     /\ rootData.contacts = getContacts(contacts, location.q)

C6_Step ==
  \A r \in InFlight :
    (IsSearch(r) /\ r \notin InFlight') =>
      IF LaterSearch(r)
      \* the answer of a search behind which another was issued is not shown
      THEN UNCHANGED <<location, rootData, routeData, inputText, history,
                       hidx>>
      \* the answer of the request issued last is what the page shows
      ELSE (r = Len(obs)) =>
             /\ location' = obs[r].url[1]
             /\ rootData' = [contacts |-> getContacts(contacts, obs[r].url[1].q),
                             q |-> obs[r].url[1].q]

\* C6: when search y is issued before search x has resolved, the result of x
\* is not shown whenever it arrives, and once both have resolved the list on
\* the page is the result of y.
C6_Supersession == []C6_Final /\ [][C6_Step]_vars

\* Search "ab" was issued while search "a" was pending and has resolved first:
\* the page lists the result of "ab" (no contact) while "a" is still in flight.
C6_Witness ==
  /\ Len(obs) = 2 /\ IsSearch(1) /\ IsSearch(2)
  /\ obs[1].url[1].q = Some(<<"a">>) /\ obs[2].url[1].q = Some(<<"a", "b">>)
  /\ InFlight = {1}
  /\ rootData.q = Some(<<"a", "b">>)
  /\ rootData.contacts = <<>>
  /\ getContacts(contacts, Some(<<"a">>)) # <<>>

\* The first two requests of the session are the searches "a" and "ab".
TypedAThenAB ==
  /\ Len(obs) >= 2 /\ IsSearch(1) /\ IsSearch(2)
  /\ obs[1].url[1].q = Some(<<"a">>) /\ obs[2].url[1].q = Some(<<"a", "b">>)

\* C7 as claimed: submitting "a" then "ab" is one push followed by one replace
\* whenever the second is submitted.
C7_PushThenReplaceAlways ==
  TypedAThenAB => (obs[1].mode = "push" /\ obs[2].mode = "replace")

\* C7, amended: a search submitted while the loader's q is null is a push and
\* one submitted while q is not null is a replace.  "a" then "ab" is one push
\* followed by one replace, leaving one new history entry, when "ab" is
\* submitted after the search for "a" has resolved; submitted while "a" is
\* still pending, "ab" finds q null and is submitted as a push too.
C7_PushThenReplaceOnceResolved ==
  /\ \A r \in Issued :
       IsSearch(r) =>
         obs[r].mode = (IF obs[r].q0 = None THEN "push" ELSE "replace")
  /\ TypedAThenAB =>
       /\ obs[1].mode = "push"
       /\ (obs[2].q0 = Some(<<"a">>) => obs[2].mode = "replace")
       /\ (obs[2].q0 = None => obs[2].mode = "push")
       /\ (obs[2].q0 = Some(<<"a">>) /\ Len(obs) = 2 /\ InFlight = {})
            => /\ Len(history) = 2 /\ hidx = 2
               /\ history[2] = IndexUrl(Some(<<"a", "b">>))

\* "ab" was submitted after "a" had resolved, as a replace, and both are shown.
C7_Witness ==
  /\ TypedAThenAB /\ Len(obs) = 2 /\ InFlight = {}
  /\ obs[1].mode = "push" /\ obs[2].mode = "replace"
  /\ Len(history) = 2
  /\ location = IndexUrl(Some(<<"a", "b">>))

\* Whenever a back or forward move is shown and has changed the q parameter,
\* the search field holds the new q, and the empty text when q is now null.
C8_Step ==
  \A r \in InFlight :
    (obs[r].kind = "pop" /\ r \notin InFlight' /\ location'.q # location.q)
    => /\ rootData'.q = location'.q
       /\ inputText' = (IF location'.q = None THEN <<>> ELSE location'.q[1])

ContactOf(loc, s) == IF loc.id = 0 THEN None ELSE getContact(s, loc.id)

C9_Step ==
  \A r \in InFlight :
    IsMutation(r) =>
      \* a failed action, no other action having settled since the Submit,
      \* leaves the store as it was at the Submit
      /\ (~Settled(r) /\ Settled(r)' /\ obs'[r].error # ""
            /\ settles = obs[r].ver)
           => (contacts' = obs[r].pre /\ nextId' = nextId)
      \* and its Revalidate shows, at the same URL, what that store holds
      /\ (Settled(r) /\ Revalidated(r)' /\ obs[r].error # ""
            /\ OnlyOwnSettle(r))
           => /\ location' = location
              /\ rootData'.contacts = getContacts(obs[r].pre, location.q)
              /\ rootData'.q = location.q
              /\ routeData'.contact = ContactOf(location, obs[r].pre)

\* C9: a mutation that fails at Settle, no other mutation settling in between,
\* leaves the store as it was before the Submit, and the following Revalidate
\* shows the pre-mutation authoritative state.
C9_FailureKeepsState == [][C9_Step]_vars

\* A save of the edit form was rejected with a StoreError and revalidated: the
\* store is the one of its Submit and the edit page shows the unchanged
\* contact.
C9_Witness ==
  \E r \in Issued :
    /\ obs[r].kind = "edit" /\ obs[r].error = "StoreError"
    /\ Revalidated(r) /\ settles = 1
    /\ contacts = obs[r].pre
    /\ location.route = "edit"
    /\ routeData.contact = getContact(obs[r].pre, location.id)

\* What a fulfilled favorite toggle or save of the edit form does to the
\* store: the supplied fields of its contact take the supplied values, its other
\* fields, its id and createdAt stay, and so do all other contacts and the
\* order of the store; a read of the contact returns the merged record.
C10_Step ==
  \A r \in InFlight :
    (obs[r].kind \in {"favorite", "edit"} /\ ~Settled(r) /\ Settled(r)'
       /\ obs'[r].error = "")
    => /\ Len(contacts') = Len(contacts)
       /\ \A i \in 1..Len(contacts) :
            IF contacts[i].id = obs[r].params.contactId[1]
            THEN /\ contacts'[i].id = contacts[i].id
                 /\ contacts'[i].createdAt = contacts[i].createdAt
                 /\ getContact(contacts', contacts[i].id) = Some(contacts'[i])
                 /\ IF obs[r].kind = "favorite"
                    THEN /\ contacts'[i].favorite = Payload(r)
                         /\ \A f \in TextFields :
                              contacts'[i][f] = contacts[i][f]
                    ELSE /\ contacts'[i].favorite = contacts[i].favorite
                         /\ \A f \in TextFields :
                              contacts'[i][f] = obs[r].formData[f]
            ELSE contacts'[i] = contacts[i]

\* C10: update is a field-level merge.  A favorite toggle sets favorite and
\* nothing else, a save of the edit form sets the five text fields and leaves
\* favorite; id, createdAt and every other contact are untouched.
C10_FieldLevelMerge == [][C10_Step]_vars

\* The edit form of a favorite contact was saved beside a second contact: the
\* contact has the form's texts and is still a favorite.
C10_Witness ==
  \E r \in Issued :
    /\ obs[r].kind = "edit" /\ obs[r].error = "" /\ Settled(r)
    /\ Len(contacts) = 2
    /\ contacts[1].favorite
    /\ contacts[1].first = <<"a", "B">>
    /\ contacts[1].notes = <<"n">>

\* The contact identifiers a path can name.
ContactIds == PathIds \ {0}
\* The params that name contact id.
ParamsOf(id) == [contactId |-> Some(id)]
\* The contacts whose deletion was answered without an error.
Deleted ==
  {id \in ContactIds :
     \E r \in Issued : /\ obs[r].kind = "destroy" /\ Settled(r)
                       /\ obs[r].error = ""
                       /\ obs[r].params = ParamsOf(id)}

\* C11: from the moment the action of the destroy route has deleted a contact,
\* and whatever is requested afterwards (also a later "New"), the store has no
\* contact of that identifier: the loaders of the contact and edit routes
\* answer 404 for it, the root loader's unfiltered list does not hold it, and
\* an update or a second delete of it is rejected as not found.
C11_DeleteIrreversible ==
  \A id \in Deleted :
    /\ getContact(contacts, id) = None
    /\ contactLoader(ParamsOf(id), contacts).error = "404"
    /\ editLoader(ParamsOf(id), contacts).error = "404"
    /\ \A c \in Ids(rootLoader(IndexUrl(None), contacts).contacts) : c # id
    /\ \A fail \in BOOLEAN :
         /\ editAction(ParamsOf(id), <<>>, contacts, nextId, fail).error
              = "NotFoundError"
         /\ destroyAction(ParamsOf(id), contacts, nextId, fail).error
              = "NotFoundError"

\* Contact 1 was deleted, and the link to its page, followed afterwards, shows
\* the 404 of the contact loader.
C11_Witness ==
  /\ 1 \in Deleted
  /\ Len(obs) = 2 /\ obs[2].kind = "get" /\ InFlight = {}
  /\ location = ContactUrl(1)
  /\ routeData.error = "404"

\* A record with empty text fields that is not a favorite.
IsEmptyRecord(c) == ~c.favorite /\ \A f \in TextFields : c[f] = <<>>

C12_Step ==
  \A r \in InFlight :
    obs[r].kind = "new" =>
      \* the action has created the contact its redirect names: a read of that
      \* identifier, by the store or by the edit loader, returns the empty
      \* record createEmptyContact returned
      /\ (~Settled(r) /\ Settled(r)' /\ obs'[r].error = "")
           => LET id == reqs'[r].redirect[1].id
                  got == getContact(contacts', id)
              IN /\ got # None
                 /\ got[1].id = id
                 /\ IsEmptyRecord(got[1])
                 /\ got = createEmptyContact(contacts, nextId, FALSE).contact
                 /\ editLoader(ParamsOf(id), contacts') = [error |-> "",
                                                           contact |-> got]
      \* and the page rendered next is the edit page of that empty record
      /\ (Settled(r) /\ Revalidated(r)' /\ obs[r].error = "")
           => /\ location' = reqs[r].redirect[1]
              /\ routeData'.error = ""
              /\ routeData'.contact[1].id = location'.id
              /\ IsEmptyRecord(routeData'.contact[1])

\* C12: the contact the root action creates has empty first, last, twitter,
\* avatar and notes and is not a favorite, and a read of the identifier the
\* action got back, issued right afterwards (by the store, by the edit loader
\* the redirect leads to), returns that same record.
C12_CreateEmpty == [][C12_Step]_vars

\* "New" was clicked beside the seeded contact: the page is the edit page of
\* contact 2, whose record is empty.
C12_Witness ==
  /\ Len(obs) >= 1 /\ obs[1].kind = "new" /\ Revalidated(1)
  /\ obs[1].error = ""
  /\ Len(contacts) = 2
  /\ location = EditUrl(2)
  /\ routeData.contact = Some(EmptyContact(2))

\* What the root loader returns for a request without q over store s.
ListOf(s) == rootLoader(IndexUrl(None), s).contacts
\* The identifiers of a list, in its order.
IdSeq(l) == [i \in 1..Len(l) |-> l[i].id]

C13_Listed ==
  LET l == ListOf(contacts)
  IN \* every contact of the store, as the store holds it, and each once
     /\ Ids(l) = Ids(contacts)
     /\ Len(l) = Cardinality(Ids(contacts))
     /\ \A i \in 1..Len(l) : getContact(contacts, l[i].id) = Some(l[i])
     \* in the order of their creation
     /\ \A i, j \in 1..Len(l) : i < j => l[i].createdAt < l[j].createdAt
     \* and it is what the sidebar shows once every request is answered
     /\ (InFlight = {} /\ location.q = None) => rootData.contacts = l

C13_Step ==
  \A r \in InFlight :
    (IsMutation(r) /\ ~Settled(r) /\ Settled(r)') =>
      LET l == ListOf(contacts)
          after == ListOf(contacts')
          Other(c) == Some(c.id) # obs[r].params.contactId
      IN CASE obs'[r].error # "" -> after = l
           [] obs[r].kind = "new" ->
                /\ Len(after) = Len(l) + 1
                /\ SubSeq(after, 1, Len(l)) = l
                /\ after[Len(after)].id \notin Ids(l)
           [] obs[r].kind = "destroy" -> after = SelectSeq(l, Other)
           [] OTHER -> IdSeq(after) = IdSeq(l)

\* C13: the root loader's list for a request without q is the store's
\* contacts, each once and as stored, in the order of their creation.  A create
\* appends to it, a delete removes one contact and keeps the order of the
\* others, an update (favorite toggle, save of the edit form) keeps every
\* position, and a failed write changes nothing.
C13_InsertionOrder == []C13_Listed /\ [][C13_Step]_vars

\* Contact 2 was created and contact 1 updated afterwards: the list is still
\* contact 1, then contact 2.
C13_Witness ==
  /\ Len(obs) = 2 /\ InFlight = {}
  /\ obs[1].kind = "new" /\ obs[1].error = ""
  /\ obs[2].kind = "edit" /\ obs[2].params = ParamsOf(1) /\ obs[2].error = ""
  /\ IdSeq(rootData.contacts) = <<1, 2>>
  /\ rootData.contacts[1].first = <<"a", "B">>

\* Two characters are the same letter, upper or lower case.
SameLetter(a, b) ==
  \/ a = b
  \/ {a, b} = {"a", "A"}
  \/ {a, b} = {"b", "B"}
\* Text s is a stretch of text t, letter case ignored.
Occurs(s, t) ==
  \E from \in 1..(Len(t) + 1) :
    /\ from + Len(s) - 1 <= Len(t)
    /\ \A k \in 1..Len(s) : SameLetter(s[k], t[from + k - 1])
\* The query strings probed: the empty one, letters of either case, a text
\* that is first followed by last, and the texts of fields that are not
\* searched.
Probes ==
  { <<>>, <<"a">>, <<"A">>, <<"b">>, <<"B">>, <<"a", "b">>, <<"A", "b">>,
    <<"b", "a">>, <<"a", "B", "b">>, <<"t">>, <<"n">>, <<"x">> }
\* The contacts the root loader returns for /?q=s over the store.
Found(s) == rootLoader(IndexUrl(Some(s)), contacts).contacts

\* C14: for every contact c of the store and every query string s, the root
\* loader's list for q = s holds c if and only if s occurs, letter case
\* ignored, in c.first or in c.last; and that list is what the sidebar shows
\* for the q of the page once every request is answered.
C14_SearchMatches ==
  /\ \A s \in Probes :
       \A i \in 1..Len(contacts) :
         (\E k \in 1..Len(Found(s)) : Found(s)[k] = contacts[i])
           <=> (Occurs(s, contacts[i].first) \/ Occurs(s, contacts[i].last))
  /\ (InFlight = {} /\ rootData.q # None) =>
       /\ rootData.q = location.q
       /\ rootData.contacts = Found(rootData.q[1])

\* The edit form was saved with first "aB", then "ab" was typed into the
\* search field: the sidebar lists the contact, and the store holds texts that
\* a search for "t" (its twitter) or "aBb" (first, then last) does not find.
C14_Witness ==
  /\ InFlight = {} /\ rootData.q = Some(<<"a", "b">>)
  /\ Len(rootData.contacts) = 1
  /\ rootData.contacts[1].first = <<"a", "B">>
  /\ rootData.contacts[1].twitter = <<"t">>
  /\ Found(<<"t">>) = <<>>
  /\ Found(<<"a", "B", "b">>) = <<>>

\* The identifiers the store has held at the Submit of any request so far or
\* holds now.  (Requests are answered one at a time, so no contact comes and
\* goes between two Submits.)
SeenIds == Ids(contacts) \cup UNION {Ids(obs[r].pre) : r \in Issued}

C15_Distinct ==
  \A i, j \in 1..Len(contacts) : contacts[i].id = contacts[j].id => i = j

C15_Step ==
  \A r \in InFlight :
    (obs[r].kind = "new" /\ ~Settled(r) /\ Settled(r)' /\ obs'[r].error = "")
    => LET id == reqs'[r].redirect[1].id
       IN /\ id \notin SeenIds
          /\ id \in Ids(contacts')
          /\ Ids(contacts') = Ids(contacts) \cup {id}

\* C15: no two contacts of the store share an identifier, and the identifier
\* of a contact the root action creates is one the store has never held
\* before, the identifiers of contacts deleted since included.
C15_IdsUnique == []C15_Distinct /\ [][C15_Step]_vars

\* Contact 1 was deleted and a contact created afterwards: it is contact 2.
C15_Witness ==
  /\ Len(obs) = 2 /\ InFlight = {}
  /\ obs[1].kind = "destroy" /\ obs[1].params = ParamsOf(1)
  /\ obs[1].error = ""
  /\ obs[2].kind = "new" /\ obs[2].error = ""
  /\ IdSeq(contacts) = <<2>>

\* Request r names a contact, and the store does not hold it.
NamesAbsent(r) ==
  /\ obs[r].params.contactId # None
  /\ obs[r].params.contactId[1] \notin Ids(contacts)

C16_Step ==
  \A r \in InFlight :
    \* an update or a delete is rejected as not found exactly when the store
    \* does not hold the contact; the store stays as it is, and the request,
    \* like every other one in flight, goes on to its Revalidate
    /\ (obs[r].kind \in {"favorite", "edit", "destroy"}
          /\ ~Settled(r) /\ Settled(r)')
         => /\ (obs'[r].error = "NotFoundError") <=> NamesAbsent(r)
            /\ NamesAbsent(r) =>
                 /\ contacts' = contacts /\ nextId' = nextId
                 /\ InFlight' = InFlight
                 /\ CanRevalidate(reqs'[r])
                 /\ reqs'[r].redirect = None
    \* a read is answered with the 404 of the loader exactly when the store
    \* does not hold the contact, and the page shows that answer
    /\ (obs[r].kind = "get" /\ obs[r].params.contactId # None
          /\ r \notin InFlight')
         => /\ (routeData'.error = "404") <=> NamesAbsent(r)
            /\ (routeData'.contact = None) <=> NamesAbsent(r)
            /\ location' = obs[r].url[1]
            /\ contacts' = contacts

\* C16: a read, an update and a delete of an identifier the store does not
\* hold (never created, or deleted) fail as not found -- the actions with the
\* NotFoundError of the store, the loaders of the contact and edit routes with
\* their 404 response -- and change nothing in the store.  The failure does not
\* stop the pipeline: the failed request is revalidated like any other, and
\* under fair scheduling every request, also one sent after the failure, is
\* answered.
C16_NotFoundRecoverable ==
  /\ [][C16_Step]_vars
  /\ \A r \in ReqIds : []<>(Settled(r) => Revalidated(r))
  /\ []<>(InFlight = {})

\* A delete of contact 2, which was never created, was rejected as not found
\* and revalidated; the favorite toggle of contact 1 sent afterwards was
\* fulfilled and revalidated.
C16_Witness ==
  /\ Len(obs) = 2 /\ InFlight = {}
  /\ obs[1].kind = "destroy" /\ obs[1].params = ParamsOf(2)
  /\ obs[1].error = "NotFoundError" /\ Revalidated(1)
  /\ obs[2].kind = "favorite" /\ obs[2].params = ParamsOf(1)
  /\ obs[2].error = "" /\ Revalidated(2)
  /\ obs[2].ver = obs[1].setAt

\* Request r carries no contact identifier.
NamesNone(r) == obs[r].params.contactId = None

C17_Step ==
  \A r \in InFlight :
    \* a favorite toggle, a save or a delete without identifier: the action
    \* throws the ValidationError whether or not the store would have failed,
    \* the store is as it was, and nothing is redirected
    /\ (obs[r].kind \in {"favorite", "edit", "destroy"}
          /\ ~Settled(r) /\ Settled(r)')
         => /\ (obs'[r].error = "ValidationError") <=> NamesNone(r)
            /\ NamesNone(r) =>
                 /\ contacts' = contacts /\ nextId' = nextId
                 /\ reqs'[r].redirect = None
                 /\ \A fail \in BOOLEAN :
                      RunAction(reqs[r], contacts, nextId, fail)
                        = [error |-> "ValidationError", contacts |-> contacts,
                           nextId |-> nextId, redirect |-> None]
    \* a read of a contact or edit page without identifier: the loader throws
    \* the ValidationError and returns no contact
    /\ (obs[r].kind = "get" /\ r \notin InFlight')
         => /\ (routeData'.error = "ValidationError") <=> NamesNone(r)
            /\ NamesNone(r) => (routeData'.contact = None
                                  /\ contacts' = contacts)

\* C17: a favorite toggle, a save of the edit form, a delete or a read of a
\* contact whose request carries no contact identifier fails with the
\* ValidationError before the store is called: the error is the same whether
\* or not the store would fail, and the store is unchanged.  No request that
\* carries an identifier fails so.
C17_MissingIdRejected == [][C17_Step]_vars

\* A delete without identifier was rejected with the ValidationError and left
\* the seeded contact in the store; the contact page requested without
\* identifier shows the ValidationError of its loader.
C17_Witness ==
  /\ Len(obs) = 2 /\ InFlight = {}
  /\ obs[1].kind = "destroy" /\ NamesNone(1)
  /\ obs[1].error = "ValidationError" /\ Revalidated(1)
  /\ obs[2].kind = "get" /\ NamesNone(2)
  /\ location.route = "contact"
  /\ routeData.error = "ValidationError"
  /\ IdSeq(contacts) = <<1>>

\* The fetcher's state before and after a step.
Moves(from, to) == fetcher.state = from /\ fetcher'.state = to

\* C18 as claimed: while Favorite is on the page, fetcher.state stays as it is
\* or takes the next step of the cycle idle, submitting, loading, idle.
C18_CycleOnly ==
  [][(Mounted /\ Mounted') =>
       \/ fetcher'.state = fetcher.state
       \/ Moves("idle", "submitting")
       \/ Moves("submitting", "loading")
       \/ Moves("loading", "idle")]_vars

\* fetcher.formData is there exactly while fetcher.state is not idle, and it is
\* the form of the toggle submitted last, which is still in flight.
C18_Payload ==
  /\ fetcher.state \in {"idle", "submitting", "loading"}
  /\ (fetcher.formData # None) <=> (fetcher.state # "idle")
  /\ (fetcher.state = "idle") <=> (fetcher.req = 0)
  /\ fetcher.state # "idle" =>
       /\ Mounted
       /\ fetcher.req \in InFlight
       /\ fetcher.formData = Some(reqs[fetcher.req].formData)
       /\ (fetcher.state = "submitting")
            <=> (reqs[fetcher.req].phase = "submitted")

C18_Step ==
  (Mounted /\ Mounted') =>
    \* never from idle to loading, never from submitting to idle
    /\ ~Moves("idle", "loading")
    /\ ~Moves("submitting", "idle")
    \* to submitting, from any state: a click on the star, and only that
    /\ (fetcher'.req # fetcher.req /\ fetcher'.state # "idle")
         <=> (nextReq' # nextReq /\ obs'[nextReq].kind = "favorite")
    /\ (fetcher'.req # fetcher.req /\ fetcher'.state # "idle")
         => /\ fetcher'.state = "submitting"
            /\ fetcher'.req = nextReq
    \* from submitting to loading: the action of the toggle submitted last has
    \* settled
    /\ \A r \in ReqIds :
         (fetcher.req = r /\ Moves("submitting", "loading"))
           => (fetcher'.req = r /\ ~Settled(r) /\ Settled(r)')
    \* from loading to idle: that toggle has been revalidated
    /\ \A r \in ReqIds :
         (fetcher.req = r /\ Moves("loading", "idle"))
           => (~Revalidated(r) /\ Revalidated(r)')

\* C18, amended: while Favorite is on the page, fetcher.state moves from idle
\* to submitting (a click), from submitting to loading (the action settled),
\* from loading to idle (the loaders ran), and, at a click on the star while a
\* toggle is in flight, from submitting or loading to submitting again with the
\* new form.  It never moves from idle to loading or from submitting to idle,
\* and fetcher.formData is there exactly while the state is not idle.
C18_RequestState == []C18_Payload /\ [][C18_Step]_vars

\* The star was clicked again while the first toggle was loading: the fetcher
\* is submitting the second toggle, the first one not yet revalidated.
C18_Witness ==
  /\ Mounted /\ Len(obs) = 2
  /\ obs[1].kind = "favorite" /\ obs[2].kind = "favorite"
  /\ Settled(1) /\ ~Revalidated(1)
  /\ obs[2].ver = obs[1].setAt
  /\ fetcher.state = "submitting" /\ fetcher.req = 2
  /\ fetcher.formData = Some(obs[2].formData)

\* The step is a click on the star.
Clicks == nextReq' # nextReq /\ obs'[nextReq].kind = "favorite"
\* The favorite value the store holds for the contact on the page.
Stored == getContact(contacts, location.id)[1].favorite

C19_Step ==
  Clicks =>
    LET submitted == (obs'[nextReq].formData.favorite = "true")
    IN \* a toggle is in flight: the negation of the value it carries
       /\ \A r \in ReqIds :
            (fetcher.req = r /\ fetcher.state \in {"submitting", "loading"})
              => submitted = ~Payload(r)
       \* none is: the negation of the value the loader returned last
       /\ fetcher.state = "idle" => submitted = ~Authoritative
       \* and the star then shows the value submitted
       /\ Mounted' /\ Displayed' = submitted

\* C19: a click on the star submits the negation of the value the star shows:
\* of the value the toggle in flight carries while the fetcher is submitting or
\* loading, of the loader's value while it is idle.  Clicks that follow one
\* another while a toggle is in flight submit alternating values, whatever the
\* store holds.
C19_SubmitsNegationOfDisplayed == [][C19_Step]_vars

\* Two clicks, the second before the action of the first has run: the second
\* toggle carries the negation of the first, which is the value the store
\* holds, not its negation.
C19_Witness ==
  /\ Mounted /\ Len(obs) = 2
  /\ obs[1].kind = "favorite" /\ obs[2].kind = "favorite"
  /\ settles = 0
  /\ Payload(2) = ~Payload(1)
  /\ Stored = Payload(2)

\* The full-page mutations: "New", "Save" and "Delete".
FullPage == {"new", "edit", "destroy"}

C20_Step ==
  \A r \in InFlight :
    \* the action answers with a redirect exactly when it threw no error, and
    \* the store operation has then taken effect
    /\ (obs[r].kind \in FullPage /\ ~Settled(r) /\ Settled(r)')
         => LET to == reqs'[r].redirect
            IN /\ (to # None) <=> (obs'[r].error = "")
               /\ obs'[r].error # "" => contacts' = contacts
               /\ to # None =>
                    CASE obs[r].kind = "new" ->
                           /\ to[1].route = "edit"
                           /\ Ids(contacts') \ Ids(contacts) = {to[1].id}
                      [] obs[r].kind = "edit" ->
                           /\ to[1] = ContactUrl(obs[r].params.contactId[1])
                           /\ \A f \in TextFields :
                                getContact(contacts', to[1].id)[1][f]
                                  = obs[r].formData[f]
                      [] OTHER ->
                           /\ to[1] = IndexUrl(None)
                           /\ Ids(contacts) \ Ids(contacts')
                                = {obs[r].params.contactId[1]}
    \* the page follows the redirect at the Revalidate, and stays where it is
    \* when there is none
    /\ (obs[r].kind \in FullPage /\ Settled(r) /\ Revalidated(r)')
         => IF obs[r].error = ""
            THEN /\ location' = reqs[r].redirect[1]
                 /\ history' = Push(history, hidx, location')
            ELSE /\ reqs[r].redirect = None
                 /\ location' = location
                 /\ history' = history

\* C20: the actions of "New", "Save" and "Delete" answer with their redirect
\* only once the store operation has succeeded: to the edit page of the
\* contact just created, to the page of the contact saved, to the root after a
\* delete.  When the identifier is missing (ValidationError) or the store
\* operation fails (NotFoundError, StoreError) there is no redirect and the
\* page stays at its URL.
C20_RedirectAfterSuccess == [][C20_Step]_vars

\* A save of contact 1 was rejected by the store and left the page where it
\* was; the delete of contact 1 sent afterwards succeeded and led to the root.
C20_Witness ==
  /\ Len(obs) = 2 /\ InFlight = {}
  /\ obs[1].kind = "edit" /\ obs[1].params = ParamsOf(1)
  /\ obs[1].error = "StoreError"
  /\ Len(history) = 2 /\ history[1].id = 1
  /\ obs[2].kind = "destroy" /\ obs[2].params = ParamsOf(1)
  /\ obs[2].error = ""
  /\ location = IndexUrl(None)
  /\ contacts = <<>>

====
